---- MODULE Spec2Model ----
(***************************************************************************)
(* Model of the error-class hierarchy (errors.go) and of the scoped panic  *)
(* handling engine (try/try.go): Do / Catch / CatchAll / Finally / Done.   *)
(*                                                                         *)
(* A Go panic is modelled by the variable `panicking` (the payload that is *)
(* unwinding, or NoPanic).  The call stack of nested Plans is `stack`; the *)
(* top frame is the Plan whose code is running.  User callbacks (the       *)
(* protected block, catch handlers, finally callbacks) are arbitrary code: *)
(* each either returns or panics with a payload chosen nondeterministically*)
(*                                                                         *)
(* Six specifications share the variables: Spec runs Plans; SpecRepanic    *)
(* builds Error values and calls Repanic and OriginalError on them;        *)
(* SpecClasses derives classes and calls Is; SpecConstruct calls the four  *)
(* class constructors; SpecWrap calls Wrap; SpecClassify calls GetClass    *)
(* and Contains.  A call of a library function is recorded in `libcall`.   *)
(***************************************************************************)
EXTENDS Integers, Sequences, FiniteSets, TLC

VARIABLES
    classes,    \* the ErrorClass forest: class id -> [parent, flags]
    heap,       \* the *errors.Error objects allocated so far (ref = index)
    stack,      \* the nested Plans, outermost first
    panicking,  \* payload of the panic unwinding now, or NoPanic
    raises,     \* number of panics user code has started
    plans,      \* number of try.Do calls made
    regs,       \* number of Catch/CatchAll/Finally calls made
    last,       \* the Done call that finished in the last step, if one did
    libcall     \* the library function called in the last step, if one was

vars == <<classes, heap, stack, panicking, raises, plans, regs, last, libcall>>

----------------------------------------------------------------------------
(* Bounds of the model *)

MaxPlans == 2      \* try.Do calls in one behaviour (nested or in sequence)
MaxRegs == 3       \* Catch/CatchAll/Finally calls in one behaviour
MaxRaises == 3     \* panics started by user callbacks in one behaviour

----------------------------------------------------------------------------
(* errors.go: classes *)

NoClass == 0                 \* a nil *ErrorClass
SystemError == 1
HierarchicalError == 2
ProgrammerError == 3
UnknownPanicError == 4
FruitError == 5
AppleError == 6

LogOnCreation == "LogOnCreation"
CaptureStack == "CaptureStack"

\* &ErrorClass{parent: ec, name: name, flags: ec.flags} with the nil default
New(tbl, ec, name) ==
    LET p == IF ec = NoClass THEN HierarchicalError ELSE ec
    IN  [parent |-> p, name |-> name, flags |-> tbl[p].flags]

\* NewWith: parent's flags plus the additions
NewWith(tbl, ec, name, flags_to_add) ==
    LET p == IF ec = NoClass THEN HierarchicalError ELSE ec
    IN  [parent |-> p, name |-> name, flags |-> tbl[p].flags \cup flags_to_add]

\* Mutant of NewSpecified: a nil parent is kept, the new class is a root.
NewSpecifiedKeepsNil(tbl, ec, name, flags) ==
    [parent |-> ec, name |-> name, flags |-> flags]

\* NewSpecified: the given flags and nothing of the parent's
NewSpecified(tbl, ec, name, flags) ==
    LET p == IF ec = NoClass THEN HierarchicalError ELSE ec
    IN  [parent |-> p, name |-> name, flags |-> flags]

\* Mutant of NewWithout: the parent's flags are taken over as they are.
NewWithoutKeepsAll(tbl, ec, name, flags_to_remove) ==
    LET p == IF ec = NoClass THEN HierarchicalError ELSE ec
    IN  [parent |-> p, name |-> name, flags |-> tbl[p].flags]

\* NewWithout: parent's flags with the removals stripped
NewWithout(tbl, ec, name, flags_to_remove) ==
    LET p == IF ec = NoClass THEN HierarchicalError ELSE ec
    IN  [parent |-> p, name |-> name, flags |-> tbl[p].flags \ flags_to_remove]

\* errors.NewClass(name): a class under the hierarchical root
NewClass(tbl, ec, name) == New(tbl, ec, name)

\* The package-level classes, in declaration order.
InitClasses ==
    LET t1 == <<[parent |-> NoClass, name |-> "System Error", flags |-> {}]>>
        t2 == Append(t1, [parent |-> NoClass, name |-> "Error",
                          flags |-> {CaptureStack}])
        t3 == Append(t2, NewWith(t2, NoClass, "Programmer Error", {LogOnCreation}))
        t4 == Append(t3, NewClass(t3, NoClass, "Unknown Error"))
        t5 == Append(t4, NewClass(t4, NoClass, "fruit"))
        t6 == Append(t5, NewClass(t5, FruitError, "apple"))
    IN  t6

\* Mutant of IsFrom: only the class itself is accepted, parents are not walked.
IsFromNoWalk(tbl, check, parent) == check # NoClass /\ check = parent

\* for check := e; check != nil; check = check.parent { if check == parent ... }
RECURSIVE IsFrom(_, _, _)
IsFrom(tbl, check, parent) ==
    IF check = NoClass THEN FALSE
    ELSE IF check = parent THEN TRUE
    ELSE IsFrom(tbl, tbl[check].parent, parent)

\* (e *ErrorClass) Is(parent)
Is(e, parent) == IsFrom(classes, e, parent)

----------------------------------------------------------------------------
(* Values that can be a panic payload *)

NoPanic == [kind |-> "nil", id |-> 0]          \* recover() returned nil
ErrorRef(r) == [kind |-> "Error", id |-> r]    \* a *errors.Error (heap ref)
PlainError(n) == [kind |-> "error", id |-> n]  \* an error that is no *Error
RawValue(v) == [kind |-> "value", id |-> v]    \* not an error at all
NilFuncCall == PlainError(0)                   \* runtime error: call of nil func

RaiseClasses == {FruitError, AppleError}       \* classes user code raises
RawValues == {3}                               \* panic(3)

\* the catch kinds user code registers; NoClass is Catch(nil, h)
CatchKinds ==
    {NoClass, SystemError, HierarchicalError, UnknownPanicError,
     FruitError, AppleError}

OriginalErrorKey == 1                          \* errors.GenSym()


----------------------------------------------------------------------------
(* errors.go: Error values.  An Error lives on the heap; its reference is   *)
(* its identity.                                                            *)

Nil == NoPanic                                 \* a nil interface value
NoData == << >>                                \* an empty data side-table

\* Mutant of WrapNew: the stack is captured whatever the class's flags are.
WrapNewAlwaysStack(h, e, err, data) ==
    Append(h, [err |-> err, class |-> e, stack |-> TRUE,
               data |-> data, exits |-> << >>])

\* rv := &Error{err: err, class: e}; stack captured iff the class has CaptureStack
WrapNew(h, e, err, data) ==
    Append(h, [err |-> err, class |-> e,
               stack |-> (CaptureStack \in classes[e].flags),
               data |-> data, exits |-> << >>])

\* (e *ErrorClass) New(format, args...): Wrap of a fresh fmt.Errorf value
ErrorNew(h, e, msg) == WrapNew(h, e, [kind |-> "fmt", id |-> msg], NoData)

\* e.NewWith(msg, SetData(key, value)): a new Error carrying data[key] = value
ErrorNewWith(h, e, msg, key, value) ==
    WrapNew(h, e, [kind |-> "fmt", id |-> msg], (key :> value))

\* errors.GetData(err, key): the value stored under key, nil when there is none
GetData(h, err, key) ==
    IF err.kind = "Error" /\ key \in DOMAIN h[err.id].data
    THEN h[err.id].data[key]
    ELSE Nil

\* Mutant of RecordBefore: the exit path is replaced by the current location.
RecordBeforeOverwrites(h, err, where) ==
    [h EXCEPT ![err.id].exits = <<where>>]

\* errors.RecordBefore(err, depth): append the current location to the exit path
RecordBefore(h, err, where) ==
    [h EXCEPT ![err.id].exits = Append(@, where)]

\* (e *Error) Is(ec)
ErrorIs(h, err, ec) == Is(h[err.id].class, ec)

\* Mutant of Wrap: a cause that is a classified Error is returned as it is,
\* whatever its class.
WrapKeepsAnyError(h, e, err, exempt) ==
    IF err = Nil THEN [rv |-> Nil, h |-> h, logged |-> FALSE]
    ELSE IF err.kind = "Error" THEN [rv |-> err, h |-> h, logged |-> FALSE]
    ELSE [rv |-> ErrorRef(Len(h) + 1), h |-> WrapNew(h, e, err, NoData),
          logged |-> LogOnCreation \in classes[e].flags]

\* Mutant of Wrap: the test for an already classified Error is missing, a new
\* Error is built around every non-nil err.
WrapAlwaysBuilds(h, e, err, exempt) ==
    IF err = Nil THEN [rv |-> Nil, h |-> h, logged |-> FALSE]
    ELSE [rv |-> ErrorRef(Len(h) + 1), h |-> WrapNew(h, e, err, NoData),
          logged |-> LogOnCreation \in classes[e].flags]

\* Mutant of Wrap: the test `err == nil` is missing, nil is wrapped like any
\* other value.
WrapNilBuilds(h, e, err, exempt) ==
    IF err.kind = "Error" /\
       (ErrorIs(h, err, e) \/
        \E i \in 1..Len(exempt) : ErrorIs(h, err, exempt[i]))
    THEN [rv |-> err, h |-> h, logged |-> FALSE]
    ELSE [rv |-> ErrorRef(Len(h) + 1), h |-> WrapNew(h, e, err, NoData),
          logged |-> LogOnCreation \in classes[e].flags]

\* (e *ErrorClass) Wrap(err, classes...): the value returned, the heap after the
\* call and whether LogWithStack was called
Wrap(h, e, err, exempt) ==
    IF err = Nil THEN [rv |-> Nil, h |-> h, logged |-> FALSE]
    ELSE IF err.kind = "Error" /\
            (ErrorIs(h, err, e) \/
             \E i \in 1..Len(exempt) : ErrorIs(h, err, exempt[i]))
    THEN [rv |-> err, h |-> h, logged |-> FALSE]
    ELSE [rv |-> ErrorRef(Len(h) + 1), h |-> WrapNew(h, e, err, NoData),
          logged |-> LogOnCreation \in classes[e].flags]

----------------------------------------------------------------------------
(* try.go: the Plan *)

NoFunc == 0                                    \* a nil func value

Top == stack[Len(stack)]
Running(pc) == stack # << >> /\ Top.pc = pc
SetTop(f) == [stack EXCEPT ![Len(stack)] = f]
Pop == SubSeq(stack, 1, Len(stack) - 1)

NoFrame ==
    [id |-> 0, pc |-> "none", catch |-> << >>, finally |-> << >>,
     rec |-> NoPanic, consumed |-> FALSE, inflight |-> NoPanic,
     harg |-> NoPanic, fq |-> << >>, hcalls |-> << >>, fcalls |-> 0,
     fran |-> << >>, steps |-> << >>, hraised |-> NoPanic,
     fraised |-> NoPanic, hmark |-> 0, hvia |-> "none", from |-> NoPanic]

\* no library function was called in the last step
NoCall == [fn |-> "none", arg |-> << >>, out |-> NoPanic, raised |-> FALSE]

\* no Done call finished in the last step
NoLast == [f |-> NoFrame, out |-> NoPanic, depth |-> 0]

\* Mutant of NewPlan: Do calls f at once instead of storing it.
NewPlanRunsMain(n) ==
    [NoFrame EXCEPT !.id = n, !.pc = "config", !.finally = <<0>>,
                    !.steps = <<"main">>]

\* &Plan{main: f, finally: func() {}}: callback 0 is the empty base callback
NewPlan(n) == [NoFrame EXCEPT !.id = n, !.pc = "config", !.finally = <<0>>]

\* func Do(f func()) *Plan
Do ==
    /\ plans < MaxPlans
    /\ panicking = NoPanic
    /\ stack = << >> \/ Running("main")
    /\ plans' = plans + 1
    /\ stack' = Append(stack, NewPlan(plans + 1))
    /\ last' = NoLast
    /\ UNCHANGED <<libcall, classes, heap, panicking, raises, regs>>

\* func (p *Plan) Catch(kind, handler): handler i is the i-th registered callback
Catch ==
    /\ Running("config")
    /\ regs < MaxRegs
    /\ regs' = regs + 1
    /\ \E kind \in CatchKinds :
         stack' = SetTop([Top EXCEPT !.catch =
                     Append(@, [match |-> kind, handler |-> Len(@) + 1,
                                anyhandler |-> NoFunc])])
    /\ last' = NoLast
    /\ UNCHANGED <<libcall, classes, heap, panicking, raises, plans>>

\* func (p *Plan) CatchAll(handler)
CatchAll ==
    /\ Running("config")
    /\ regs < MaxRegs
    /\ regs' = regs + 1
    /\ stack' = SetTop([Top EXCEPT !.catch =
                    Append(@, [match |-> NoClass, handler |-> NoFunc,
                               anyhandler |-> Len(@) + 1])])
    /\ last' = NoLast
    /\ UNCHANGED <<libcall, classes, heap, panicking, raises, plans>>

\* Mutant of Finally: p.finally = func() { f2(); f() }, the new callback is
\* called after the ones registered before it.
FinallyRunsLast ==
    /\ Running("config")
    /\ regs < MaxRegs
    /\ regs' = regs + 1
    /\ stack' = SetTop([Top EXCEPT !.finally =
                    SubSeq(@, 1, Len(@) - 1) \o <<Len(@), 0>>])
    /\ last' = NoLast
    /\ UNCHANGED <<libcall, classes, heap, panicking, raises, plans>>

\* func (p *Plan) Finally(f): p.finally = func() { f(); f2() }
Finally ==
    /\ Running("config")
    /\ regs < MaxRegs
    /\ regs' = regs + 1
    /\ stack' = SetTop([Top EXCEPT !.finally = <<Len(@)>> \o @])
    /\ last' = NoLast
    /\ UNCHANGED <<libcall, classes, heap, panicking, raises, plans>>

\* func (p *Plan) Done(): the deferred function is armed and p.main() is called
Done ==
    /\ Running("config")
    /\ stack' = SetTop([Top EXCEPT !.pc = "main", !.steps = <<"main">>])
    /\ last' = NoLast
    /\ UNCHANGED <<libcall, classes, heap, panicking, raises, plans, regs>>


----------------------------------------------------------------------------
(* try.go: Done, the dispatch of a recovered panic *)

\* Mutant of ScanError: the last matching entry wins instead of the first.
RECURSIVE ScanErrorLast(_, _, _, _)
ScanErrorLast(h, catch, i, err) ==
    IF i > Len(catch) THEN 0
    ELSE LET later == ScanErrorLast(h, catch, i + 1, err)
         IN  IF later # 0 THEN later
             ELSE IF catch[i].match = NoClass \/ ErrorIs(h, err, catch[i].match)
                  THEN i ELSE 0

\* case *errors.Error: for _, catch := range p.catch { match == nil / err.Is(match) }
RECURSIVE ScanError(_, _, _, _)
ScanError(h, catch, i, err) ==
    IF i > Len(catch) THEN 0
    ELSE IF catch[i].match = NoClass THEN i
    ELSE IF ErrorIs(h, err, catch[i].match) THEN i
    ELSE ScanError(h, catch, i + 1, err)

\* Mutant of ScanPlain: a typed entry is tried with the class GetClass gives a
\* plain error (catch.match.Contains(err)).
RECURSIVE ScanPlainByClass(_, _)
ScanPlainByClass(catch, i) ==
    IF i > Len(catch) THEN 0
    ELSE IF catch[i].match = NoClass THEN i
    ELSE IF Is(SystemError, catch[i].match) THEN i
    ELSE ScanPlainByClass(catch, i + 1)

\* case error: for _, catch := range p.catch { match == nil }
RECURSIVE ScanPlain(_, _)
ScanPlain(catch, i) ==
    IF i > Len(catch) THEN 0
    ELSE IF catch[i].match = NoClass THEN i
    ELSE ScanPlain(catch, i + 1)

\* Mutant of ScanUnknown: a typed entry matches only the class UnknownPanicError
\* itself (catch.match == UnknownPanicError), not its ancestors.
RECURSIVE ScanUnknownExact(_, _)
ScanUnknownExact(catch, i) ==
    IF i > Len(catch) THEN 0
    ELSE IF catch[i].match = NoClass THEN i
    ELSE IF catch[i].match = UnknownPanicError THEN i
    ELSE ScanUnknownExact(catch, i + 1)

\* default: for _, catch := range p.catch { match == nil / UnknownPanicError.Is(match) }
RECURSIVE ScanUnknown(_, _)
ScanUnknown(catch, i) ==
    IF i > Len(catch) THEN 0
    ELSE IF catch[i].match = NoClass THEN i
    ELSE IF Is(UnknownPanicError, catch[i].match) THEN i
    ELSE ScanUnknown(catch, i + 1)

\* switch err := rec.(type): the entry the loops select, 0 when none
Select(h, catch, rec) ==
    CASE rec.kind = "Error" -> ScanError(h, catch, 1, rec)
      [] rec.kind = "error" -> ScanPlain(catch, 1)
      [] OTHER -> ScanUnknown(catch, 1)

\* the field the selected branch calls: catch.anyhandler or catch.handler
Slot(c) == IF c.match = NoClass THEN "anyhandler" ELSE "handler"
Callee(c) == IF c.match = NoClass THEN c.anyhandler ELSE c.handler

\* Mutant of EnterFinally: p.finally() is called after the switch instead of
\* being deferred, so a panicking handler skips it.
EnterFinallyNotDeferred(f) ==
    IF f.inflight # NoPanic
    THEN [f EXCEPT !.pc = "finally", !.fq = <<0>>]
    ELSE [f EXCEPT !.pc = "finally", !.fq = f.finally, !.fcalls = @ + 1,
                   !.steps = Append(@, "finally")]

\* the inner deferred function starts: p.finally() is called
EnterFinally(f) ==
    [f EXCEPT !.pc = "finally", !.fq = f.finally, !.fcalls = @ + 1,
              !.steps = Append(@, "finally")]

\* Mutant of CallHandler: p.finally() is called before the handler, not after.
CallHandlerAfterFinally(f, i, arg) ==
    LET call == [idx |-> i, slot |-> Slot(f.catch[i]),
                 fn |-> Callee(f.catch[i]), arg |-> arg]
        f1 == [f EXCEPT !.consumed = TRUE, !.harg = arg,
                        !.hcalls = Append(@, call), !.fcalls = @ + 1,
                        !.fran = f.finally, !.finally = <<0>>]
    IN  IF call.fn = NoFunc
        THEN [f1 EXCEPT !.pc = "finally", !.fq = <<0>>, !.inflight = NilFuncCall,
                        !.steps = Append(@, "finally")]
        ELSE [f1 EXCEPT !.pc = "handler",
                        !.steps = Append(Append(@, "finally"), "handler")]

\* consumed = true; catch.anyhandler(arg) / catch.handler(arg).  The call is
\* recorded in hcalls; calling a nil func value panics with a runtime error
\* and no handler runs, so the inner deferred function starts at once
CallHandler(f, i, arg) ==
    LET call == [idx |-> i, slot |-> Slot(f.catch[i]),
                 fn |-> Callee(f.catch[i]), arg |-> arg]
        f1 == [f EXCEPT !.consumed = TRUE, !.harg = arg,
                        !.hcalls = Append(@, call)]
    IN  IF call.fn = NoFunc
        THEN EnterFinally([f1 EXCEPT !.inflight = NilFuncCall])
        ELSE [f1 EXCEPT !.pc = "handler", !.steps = Append(@, "handler")]

\* Mutant of Synthesize: the formatted message is stored in place of the payload.
SynthesizeStoresMessage(h, rec) ==
    ErrorNewWith(h, UnknownPanicError, rec.id, OriginalErrorKey,
                 [kind |-> "fmt", id |-> rec.id])

\* msg := fmt.Sprintf("%v", rec)
\* pan := UnknownPanicError.NewWith(msg, errors.SetData(OriginalErrorKey, rec))
Synthesize(h, rec) ==
    ErrorNewWith(h, UnknownPanicError, rec.id, OriginalErrorKey, rec)

\* The outer deferred function of Done, from rec := recover() to the call of the
\* selected handler (or to the call of p.finally when nothing is selected).
Dispatch(f, rec, h) ==
    LET h1 == IF rec.kind = "Error" THEN RecordBefore(h, rec, f.id) ELSE h
        sel == Select(h1, f.catch, rec)
        wrap == sel # 0 /\ rec.kind = "value"
        h2 == IF wrap THEN Synthesize(h1, rec) ELSE h1
        arg == IF wrap THEN ErrorRef(Len(h2)) ELSE rec
        f1 == [f EXCEPT !.rec = rec, !.hmark = Len(h)]
    IN  [h |-> h2,
         f |-> IF sel = 0 THEN EnterFinally(f1) ELSE CallHandler(f1, sel, arg)]

\* what user code can panic with: a new classified Error, a new plain error,
\* or a value that is no error; n names the new value
UserRaises(h, n) ==
    {[p |-> ErrorRef(Len(h) + 1), h |-> ErrorNew(h, c, n)] : c \in RaiseClasses}
      \cup {[p |-> PlainError(n), h |-> h]}
      \cup {[p |-> RawValue(v), h |-> h] : v \in RawValues}

\* func OriginalError(err error) interface{}
OriginalError(h, err) ==
    LET data == GetData(h, err, OriginalErrorKey)
    IN  IF data = Nil THEN err ELSE data

\* Mutant of Repanic: the class is not looked at, whatever is stored under
\* OriginalErrorKey is raised (panic(OriginalError(err))).
RepanicIgnoresClass(h, err) == [p |-> OriginalError(h, err), h |-> h]

\* Mutant of Repanic: the value it was given is re-raised as it is (panic(err)).
RepanicRaisesWrapper(h, err) == [p |-> err, h |-> h]

\* func Repanic(err error): the payload it panics with
Repanic(h, err) ==
    IF err.kind # "Error" THEN [p |-> err, h |-> h]
    ELSE IF ~ErrorIs(h, err, UnknownPanicError) THEN [p |-> err, h |-> h]
    ELSE LET data == GetData(h, err, OriginalErrorKey)
         IN  IF data = Nil
             THEN [p |-> ErrorRef(Len(h) + 1),
                   h |-> ErrorNewWith(h, ProgrammerError, 0, OriginalErrorKey, err)]
             ELSE [p |-> data, h |-> h]

\* Mutant of ExitPayload: the handler's panic is recovered and dropped.
ExitPayloadDropsHandlerPanic(f) == IF ~f.consumed THEN f.rec ELSE NoPanic

\* Mutant of ExitPayload: `if rec != nil { panic(rec) }`, consumed is ignored.
ExitPayloadIgnoresConsumed(f) == IF f.rec # NoPanic THEN f.rec ELSE f.inflight

\* Mutant of ExitPayload: the re-panic of an unconsumed fault is missing.
ExitPayloadNoRepanic(f) == f.inflight

\* the panic (or nil) that leaves Done once p.finally() has returned:
\* if !consumed { panic(rec) }, else a handler's panic keeps unwinding
ExitPayload(f) == IF ~f.consumed THEN f.rec ELSE f.inflight

\* Done is over: its frame is popped and `out` unwinds into the caller
Exit(f, out) ==
    /\ stack' = Pop
    /\ panicking' = out
    /\ last' = [f |-> [f EXCEPT !.pc = "done",
                          !.steps = Append(@, IF out = NoPanic THEN "return"
                                                               ELSE "raise")],
                out |-> out, depth |-> Len(stack)]

\* Mutant of MainReturn: `case nil` is missing, a nil recover() is dispatched
\* through the default branch like any other value.
MainReturnDispatchesNil ==
    /\ Running("main")
    /\ panicking = NoPanic
    /\ LET d == Dispatch(Top, NoPanic, heap)
       IN  /\ stack' = SetTop(d.f)
           /\ heap' = d.h
    /\ last' = NoLast
    /\ UNCHANGED <<libcall, classes, panicking, raises, plans, regs>>

\* p.main() returns: recover() is nil, consumed = true, p.finally() is called
MainReturn ==
    /\ Running("main")
    /\ panicking = NoPanic
    /\ stack' = SetTop(EnterFinally([Top EXCEPT !.consumed = TRUE]))
    /\ last' = NoLast
    /\ UNCHANGED <<libcall, classes, heap, panicking, raises, plans, regs>>

\* p.main() panics
MainPanic ==
    /\ Running("main")
    /\ panicking = NoPanic
    /\ raises < MaxRaises
    /\ \E r \in UserRaises(heap, raises + 1) :
         /\ panicking' = r.p
         /\ heap' = r.h
    /\ raises' = raises + 1
    /\ last' = NoLast
    /\ UNCHANGED <<libcall, classes, stack, plans, regs>>

\* the wrapper a handler of the Done call l handed to Repanic, when the fault
\* that left l is the one Repanic raised; NoPanic otherwise
RepanicOf(l) ==
    IF l.f.pc = "done" /\ l.f.hvia = "Repanic" /\ l.f.fraised = NoPanic
    THEN l.f.harg ELSE NoPanic

\* a panic reaches Done's deferred function (from p.main or from a nested Done)
Recover ==
    /\ Running("main")
    /\ panicking # NoPanic
    /\ LET d == Dispatch([Top EXCEPT !.from = RepanicOf(last)], panicking, heap)
       IN  /\ stack' = SetTop(d.f)
           /\ heap' = d.h
    /\ panicking' = NoPanic
    /\ last' = NoLast
    /\ UNCHANGED <<libcall, classes, raises, plans, regs>>

\* Mutant of HandlerReturn: the `return` after the handler call is missing, so
\* the loop goes on and calls a wildcard entry registered next.
HandlerReturnGoesOn ==
    /\ Running("handler")
    /\ LET i == Top.hcalls[Len(Top.hcalls)].idx
       IN  stack' = SetTop(IF i < Len(Top.catch) /\ Top.catch[i + 1].match = NoClass
                           THEN CallHandler(Top, i + 1, Top.harg)
                           ELSE EnterFinally(Top))
    /\ last' = NoLast
    /\ UNCHANGED <<libcall, classes, heap, panicking, raises, plans, regs>>

\* the called handler returns
HandlerReturn ==
    /\ Running("handler")
    /\ stack' = SetTop(EnterFinally(Top))
    /\ last' = NoLast
    /\ UNCHANGED <<libcall, classes, heap, panicking, raises, plans, regs>>

\* the called handler panics: with a new value, with the value it received
\* (panic(err)) or through try.Repanic(err); p.finally() runs while unwinding
HandlerPanic ==
    /\ Running("handler")
    /\ raises < MaxRaises
    /\ \E how \in {"panic", "Repanic"} :
         \E r \in IF how = "Repanic"
                  THEN {Repanic(heap, Top.harg)}
                  ELSE UserRaises(heap, raises + 1)
                         \cup {[p |-> Top.harg, h |-> heap]} :
           /\ stack' = SetTop(EnterFinally([Top EXCEPT !.inflight = r.p,
                                                       !.hraised = r.p,
                                                       !.hvia = how]))
           /\ heap' = r.h
    /\ raises' = raises + 1
    /\ last' = NoLast
    /\ UNCHANGED <<libcall, classes, panicking, plans, regs>>

\* a registered finally callback returns: the composed callback calls the next
FinallyReturn ==
    /\ Running("finally")
    /\ Head(Top.fq) # 0
    /\ stack' = SetTop([Top EXCEPT !.fq = Tail(@), !.fran = Append(@, Head(Top.fq))])
    /\ last' = NoLast
    /\ UNCHANGED <<libcall, classes, heap, panicking, raises, plans, regs>>

\* Mutant of FinallyPanicPayload: the fault that was pending when finally
\* started is re-raised in place of the one finally raised.
FinallyPanicKeepsPending(f, g) ==
    IF ~f.consumed THEN f.rec
    ELSE IF f.inflight # NoPanic THEN f.inflight ELSE g

\* p.finally() panics with g inside the inner deferred function: `if !consumed
\* { panic(rec) }` is never reached and g supersedes a handler's panic
FinallyPanicPayload(f, g) == g

\* a registered finally callback panics: that panic leaves Done
FinallyPanic ==
    /\ Running("finally")
    /\ Head(Top.fq) # 0
    /\ raises < MaxRaises
    /\ \E r \in UserRaises(heap, raises + 1) :
         /\ Exit([Top EXCEPT !.fran = Append(@, Head(Top.fq)), !.fraised = r.p],
                 FinallyPanicPayload(Top, r.p))
         /\ heap' = r.h
    /\ raises' = raises + 1
    /\ UNCHANGED <<libcall, classes, plans, regs>>

\* the base callback of Do returns, so p.finally() returns; then
\* if !consumed { panic(rec) } and the deferred functions are over
DoneExit ==
    /\ Running("finally")
    /\ Head(Top.fq) = 0
    /\ Exit([Top EXCEPT !.fq = Tail(@)], ExitPayload(Top))
    /\ UNCHANGED <<libcall, classes, heap, raises, plans, regs>>

----------------------------------------------------------------------------

Init ==
    /\ classes = InitClasses
    /\ heap = << >>
    /\ stack = << >>
    /\ panicking = NoPanic
    /\ raises = 0
    /\ plans = 0
    /\ regs = 0
    /\ last = NoLast
    /\ libcall = NoCall

Next ==
    \/ Do
    \/ Catch
    \/ CatchAll
    \/ Finally
    \/ Done
    \/ MainReturn
    \/ MainPanic
    \/ Recover
    \/ HandlerReturn
    \/ HandlerPanic
    \/ FinallyReturn
    \/ FinallyPanic
    \/ DoneExit

Spec == Init /\ [][Next]_vars


----------------------------------------------------------------------------
(* try.go: OriginalError and Repanic called on error values of every shape *)

MaxErrors == 2     \* Error values user code builds in one behaviour

\* a class user code derives from UnknownPanicError
ChildPanicError == Len(InitClasses) + 1

InitRepanicClasses ==
    Append(InitClasses, NewClass(InitClasses, UnknownPanicError, "child"))

\* the classes of the Errors user code builds
ErrorClasses ==
    {UnknownPanicError, ChildPanicError, ProgrammerError, AppleError}

\* what user code stores under OriginalErrorKey
DataValues == {RawValue(v) : v \in RawValues} \cup {PlainError(1)}

\* the error values there are to pass: the Errors built so far and a plain error
ErrorValues(h) == {ErrorRef(r) : r \in DOMAIN h} \cup {PlainError(1)}

\* user code builds an Error: c.New(msg) or c.NewWith(msg, SetData(key, v))
MakeError ==
    /\ Len(heap) < MaxErrors
    /\ \E c \in ErrorClasses :
         \/ heap' = ErrorNew(heap, c, Len(heap) + 1)
         \/ \E v \in DataValues :
              heap' = ErrorNewWith(heap, c, Len(heap) + 1, OriginalErrorKey, v)
    /\ libcall' = NoCall
    /\ UNCHANGED <<classes, stack, panicking, raises, plans, regs, last>>

\* try.Repanic(err) is called: out is what it panics with
CallRepanic ==
    /\ Len(heap) <= MaxErrors
    /\ \E err \in ErrorValues(heap) :
         LET r == Repanic(heap, err)
         IN  /\ heap' = r.h
             /\ libcall' = [fn |-> "Repanic", arg |-> err, out |-> r.p,
                            raised |-> r.p # NoPanic]
    /\ UNCHANGED <<classes, stack, panicking, raises, plans, regs, last>>

\* try.OriginalError(err) is called: out is what it returns
CallOriginalError ==
    /\ \E err \in ErrorValues(heap) :
         libcall' = [fn |-> "OriginalError", arg |-> err,
                     out |-> OriginalError(heap, err), raised |-> FALSE]
    /\ UNCHANGED <<classes, heap, stack, panicking, raises, plans, regs, last>>

InitRepanic ==
    /\ classes = InitRepanicClasses
    /\ heap = << >>
    /\ stack = << >>
    /\ panicking = NoPanic
    /\ raises = 0
    /\ plans = 0
    /\ regs = 0
    /\ last = NoLast
    /\ libcall = NoCall

NextRepanic ==
    \/ MakeError
    \/ CallRepanic
    \/ CallOriginalError

SpecRepanic == InitRepanic /\ [][NextRepanic]_vars

----------------------------------------------------------------------------
(* errors.go: user code derives classes and asks Is *)

MaxNewClasses == 2     \* classes user code makes in one behaviour

\* the name user code gives: the one FruitError has already
ClassNames == {"fruit"}

\* every *ErrorClass value there is to pass, nil included
ClassValues == DOMAIN classes \cup {NoClass}

\* parent.New(name), or errors.New(nil, name) for a class under the root
MakeClass ==
    /\ Len(classes) < Len(InitClasses) + MaxNewClasses
    /\ \E parent \in ClassValues, name \in ClassNames :
         classes' = Append(classes, New(classes, parent, name))
    /\ libcall' = NoCall
    /\ UNCHANGED <<heap, stack, panicking, raises, plans, regs, last>>

\* c.Is(a) is called: out is the boolean it returns
CallIs ==
    /\ \E c \in ClassValues, a \in ClassValues :
         libcall' = [fn |-> "Is", arg |-> <<c, a>>, out |-> Is(c, a),
                     raised |-> FALSE]
    /\ UNCHANGED <<classes, heap, stack, panicking, raises, plans, regs, last>>

NextClasses ==
    \/ MakeClass
    \/ CallIs

SpecClasses == Init /\ [][NextClasses]_vars

----------------------------------------------------------------------------
(* errors.go: the four constructors of classes *)

\* the flag arguments passed
FlagSets == SUBSET {LogOnCreation, CaptureStack}

\* the parents passed: nil, a root without flags, a class with both flags, and
\* the classes made so far
ParentValues ==
    {NoClass, SystemError, ProgrammerError}
      \cup {c \in DOMAIN classes : c > Len(InitClasses)}

\* a constructor has returned the class made: it is the newest of the table
Made(fn, ec, name, flags, class) ==
    /\ classes' = Append(classes, class)
    /\ libcall' = [fn |-> fn, arg |-> [ec |-> ec, name |-> name, flags |-> flags],
                   out |-> Len(classes) + 1, raised |-> FALSE]
    /\ UNCHANGED <<heap, stack, panicking, raises, plans, regs, last>>

CallNewSpecified ==
    /\ Len(classes) < Len(InitClasses) + MaxNewClasses
    /\ \E ec \in ParentValues, name \in ClassNames, flags \in FlagSets :
         Made("NewSpecified", ec, name, flags,
              NewSpecified(classes, ec, name, flags))

CallNewWith ==
    /\ Len(classes) < Len(InitClasses) + MaxNewClasses
    /\ \E ec \in ParentValues, name \in ClassNames, flags \in FlagSets :
         Made("NewWith", ec, name, flags, NewWith(classes, ec, name, flags))

CallNewWithout ==
    /\ Len(classes) < Len(InitClasses) + MaxNewClasses
    /\ \E ec \in ParentValues, name \in ClassNames, flags \in FlagSets :
         Made("NewWithout", ec, name, flags,
              NewWithout(classes, ec, name, flags))

CallNew ==
    /\ Len(classes) < Len(InitClasses) + MaxNewClasses
    /\ \E ec \in ParentValues, name \in ClassNames :
         Made("New", ec, name, {}, New(classes, ec, name))

NextConstruct ==
    \/ CallNewSpecified
    \/ CallNewWith
    \/ CallNewWithout
    \/ CallNew

SpecConstruct == Init /\ [][NextConstruct]_vars

----------------------------------------------------------------------------
(* errors.go: Wrap called with every shape of class, cause and exemptions *)

\* a class user code derives from AppleError with stack capture switched off
QuietError == Len(InitClasses) + 1

InitWrapClasses ==
    Append(InitClasses,
           NewWithout(InitClasses, AppleError, "quiet", {CaptureStack}))

\* the classes Wrap is called on
WrapClasses ==
    {SystemError, ProgrammerError, FruitError, AppleError, QuietError}

\* the exemption lists passed
Exemptions == {<< >>, <<FruitError>>, <<SystemError, QuietError>>}

\* the causes passed: nil, a plain error, the Errors built so far
Causes(h) == {Nil, PlainError(1)} \cup {ErrorRef(r) : r \in DOMAIN h}

\* e.Wrap(err, classes...) is called; mark is the number of Errors before it
CallWrap ==
    /\ \E e \in WrapClasses, err \in Causes(heap), exempt \in Exemptions :
         LET r == Wrap(heap, e, err, exempt)
         IN  /\ Len(r.h) <= MaxErrors
             /\ heap' = r.h
             /\ libcall' = [fn |-> "Wrap",
                            arg |-> [e |-> e, err |-> err, classes |-> exempt],
                            out |-> [rv |-> r.rv, logged |-> r.logged,
                                     mark |-> Len(heap)],
                            raised |-> FALSE]
    /\ UNCHANGED <<classes, stack, panicking, raises, plans, regs, last>>

InitWrap ==
    /\ classes = InitWrapClasses
    /\ heap = << >>
    /\ stack = << >>
    /\ panicking = NoPanic
    /\ raises = 0
    /\ plans = 0
    /\ regs = 0
    /\ last = NoLast
    /\ libcall = NoCall

NextWrap == CallWrap

SpecWrap == InitWrap /\ [][NextWrap]_vars

----------------------------------------------------------------------------
(* errors.go: GetClass and Contains called on values of every shape *)

\* the classes errors.go declares for the error types of os, syscall and net
SyscallError == Len(InitClasses) + 1
ErrnoError == Len(InitClasses) + 2
NetworkError == Len(InitClasses) + 3
UnknownNetworkError == Len(InitClasses) + 4
AddrError == Len(InitClasses) + 5
InvalidAddrError == Len(InitClasses) + 6
NetOpError == Len(InitClasses) + 7
NetParseError == Len(InitClasses) + 8
DNSError == Len(InitClasses) + 9
DNSConfigError == Len(InitClasses) + 10

\* the table once the package's var block has run, in declaration order;
\* each New reads its parent's flags in the table as it then is
InitPlatformClasses ==
    LET t3 == InitClasses \o
                <<New(InitClasses, SystemError, "Syscall Error"),
                  New(InitClasses, SystemError, "Errno Error"),
                  New(InitClasses, SystemError, "Network Error")>>
        t5 == t3 \o <<New(t3, NetworkError, "Unknown Network Error"),
                      New(t3, NetworkError, "Addr Error")>>
        t6 == Append(t5, New(t5, AddrError, "Invalid Addr Error"))
        t9 == t6 \o <<New(t3, NetworkError, "Network Op Error"),
                      New(t3, NetworkError, "Network Parse Error"),
                      New(t3, NetworkError, "DNS Error")>>
    IN  Append(t9, New(t9, DNSError, "DNS Config Error"))

\* the dynamic types of the plain errors passed: PlainError(n) has the n-th.
\* The first is the type of fmt.Errorf's result, the last a type of user code
\* that has the methods of net.Error.
ErrorTypes ==
    <<"*fmt.wrapError", "*os.SyscallError", "syscall.Errno",
      "net.UnknownNetworkError", "*net.AddrError", "net.InvalidAddrError",
      "*net.OpError", "*net.ParseError", "*net.DNSError",
      "*net.DNSConfigError", "timeoutError">>

\* the dynamic type of a value that is no *Error; "nil" for the nil interface
TypeOf(err) ==
    IF err.kind = "error" /\ err.id \in DOMAIN ErrorTypes
    THEN ErrorTypes[err.id]
    ELSE IF err = Nil THEN "nil" ELSE "runtime.Error"

\* the types that satisfy the interface net.Error (Timeout and Temporary)
NetErrors ==
    {"syscall.Errno", "net.UnknownNetworkError", "*net.AddrError",
     "net.InvalidAddrError", "*net.OpError", "*net.ParseError",
     "*net.DNSError", "*net.DNSConfigError", "timeoutError"}

\* the cases of the type switch of findSystemErrorClass, in order
TypeSwitch ==
    <<[type |-> "*os.SyscallError", class |-> SyscallError],
      [type |-> "syscall.Errno", class |-> ErrnoError],
      [type |-> "net.UnknownNetworkError", class |-> UnknownNetworkError],
      [type |-> "*net.AddrError", class |-> AddrError],
      [type |-> "net.InvalidAddrError", class |-> InvalidAddrError],
      [type |-> "*net.OpError", class |-> NetOpError],
      [type |-> "*net.ParseError", class |-> NetParseError],
      [type |-> "*net.DNSError", class |-> DNSError],
      [type |-> "*net.DNSConfigError", class |-> DNSConfigError],
      [type |-> "net.Error", class |-> NetworkError]>>

\* a value of dynamic type t is accepted by the case for type c
CaseAccepts(c, t) == t = c \/ (c = "net.Error" /\ t \in NetErrors)

\* Mutant of findSystemErrorClass: no case accepted gives the other root.
findSystemErrorClassOtherRoot(err) ==
    LET t == TypeOf(err)
        hits == {i \in DOMAIN TypeSwitch : CaseAccepts(TypeSwitch[i].type, t)}
    IN  IF hits = {} THEN HierarchicalError
        ELSE TypeSwitch[CHOOSE i \in hits : \A j \in hits : i <= j].class

\* switch err.(type) { case ...: return ...; default: return SystemError }:
\* the first case that accepts the value decides
findSystemErrorClass(err) ==
    LET t == TypeOf(err)
        hits == {i \in DOMAIN TypeSwitch : CaseAccepts(TypeSwitch[i].type, t)}
    IN  IF hits = {} THEN SystemError
        ELSE TypeSwitch[CHOOSE i \in hits : \A j \in hits : i <= j].class

\* Mutant of GetClass: the type table is consulted for a classified Error too.
GetClassByTypeOnly(h, err) == findSystemErrorClass(err)

\* errors.GetClass(err)
GetClass(h, err) ==
    IF err.kind # "Error" THEN findSystemErrorClass(err) ELSE h[err.id].class

\* (e *ErrorClass) Contains(err)
Contains(h, e, err) == Is(GetClass(h, err), e)

\* the classes user code wraps with
ClassifyClasses == {FruitError, DNSError}

\* every value there is to classify: nil, plain errors of every listed type,
\* the error of a nil function call, the Errors built so far
Classified(h) ==
    {Nil, NilFuncCall} \cup {PlainError(n) : n \in DOMAIN ErrorTypes}
        \cup {ErrorRef(r) : r \in DOMAIN h}

\* user code builds an Error: e.Wrap(err) of a plain error or of an Error
WrapForClass ==
    /\ Len(heap) < MaxErrors
    /\ \E e \in ClassifyClasses, err \in Causes(heap) \ {Nil} :
         heap' = Wrap(heap, e, err, << >>).h
    /\ libcall' = NoCall
    /\ UNCHANGED <<classes, stack, panicking, raises, plans, regs, last>>

\* errors.GetClass(err) is called: out is the class it returns
CallGetClass ==
    /\ \E err \in Classified(heap) :
         libcall' = [fn |-> "GetClass", arg |-> [err |-> err],
                     out |-> GetClass(heap, err), raised |-> FALSE]
    /\ UNCHANGED <<classes, heap, stack, panicking, raises, plans, regs, last>>

\* e.Contains(err) is called: out is the boolean it returns
CallContains ==
    /\ \E e \in DOMAIN classes, err \in Classified(heap) :
         libcall' = [fn |-> "Contains", arg |-> [e |-> e, err |-> err],
                     out |-> Contains(heap, e, err), raised |-> FALSE]
    /\ UNCHANGED <<classes, heap, stack, panicking, raises, plans, regs, last>>

InitClassify ==
    /\ classes = InitPlatformClasses
    /\ heap = << >>
    /\ stack = << >>
    /\ panicking = NoPanic
    /\ raises = 0
    /\ plans = 0
    /\ regs = 0
    /\ last = NoLast
    /\ libcall = NoCall

NextClassify ==
    \/ WrapForClass
    \/ CallGetClass
    \/ CallContains

SpecClassify == InitClassify /\ [][NextClassify]_vars

----------------------------------------------------------------------------
(* Vocabulary of the properties *)

\* every Done call the state shows: the running ones and the one just finished
Frames == {stack[i] : i \in 1..Len(stack)} \cup {last.f}
Finished == last.f.pc = "done"
Dispatched(f) == f.pc \in {"handler", "finally", "done"}
Block(f) == f.rec                      \* what the protected block raised
Wildcard(c) == c.match = NoClass
Least(S) == IF S = {} THEN 0 ELSE CHOOSE i \in S : \A j \in S : i <= j
Callbacks(f) == Len(f.finally) - 1     \* registered finally callbacks

\* the entries of f that match what its block raised
Matching(f) ==
    {i \in 1..Len(f.catch) :
        CASE f.rec.kind = "Error" ->
               Wildcard(f.catch[i]) \/ Is(heap[f.rec.id].class, f.catch[i].match)
          [] f.rec.kind = "error" -> Wildcard(f.catch[i])
          [] f.rec.kind = "value" ->
               Wildcard(f.catch[i]) \/ Is(UnknownPanicError, f.catch[i].match)
          [] OTHER -> FALSE}

----------------------------------------------------------------------------
\* C1: whatever the block and the dispatch did, one Done call calls the
\* composed finally callback exactly once, and it has done so before it
\* returns or re-raises: never twice while running, once when finished.
C1_FinallyExactlyOnce ==
    /\ \A f \in Frames :
         /\ f.fcalls <= 1
         /\ f.pc \in {"finally", "done"} => f.fcalls = 1
         /\ f.pc \in {"config", "main", "handler"} => f.fcalls = 0
    /\ Finished => last.f.fcalls = 1

\* a Done whose handler raised has finished with its finally called once
C1_Witness ==
    Finished /\ last.f.hraised # NoPanic /\ last.f.fcalls = 1 /\ Callbacks(last.f) > 0

\* C2: a classified Error goes to the first entry, in registration order, that
\* is a wildcard or whose class the Error Is; no other entry is called.
C2_FirstMatchWins ==
    \A f \in Frames :
        (Dispatched(f) /\ f.rec.kind = "Error") =>
            LET first == Least(Matching(f))
            IN  /\ first = 0 => f.hcalls = << >>
                /\ first # 0 =>
                     /\ Len(f.hcalls) = 1
                     /\ f.hcalls[1].idx = first
                     /\ f.hcalls[1].arg = f.rec
                     /\ f.hcalls[1].fn = Callee(f.catch[first])

\* Catch(Y), Catch(X), CatchAll with X Is Y and a fault of class X: Y's handler
C2_Witness ==
    \E f \in Frames :
        /\ Len(f.catch) = 3
        /\ f.catch[1].match = FruitError /\ f.catch[2].match = AppleError
        /\ Wildcard(f.catch[3]) /\ f.catch[3].anyhandler # NoFunc
        /\ f.rec.kind = "Error" /\ heap[f.rec.id].class = AppleError
        /\ f.pc = "handler" /\ f.hcalls[1].idx = 1

\* C3: when the called handler raises F and finally does not raise, every
\* finally callback has run and F, not the block's fault, leaves Done.
C3_HandlerFaultSurfaces ==
    (Finished /\ last.f.hraised # NoPanic /\ last.f.fraised = NoPanic) =>
        /\ last.f.fcalls = 1
        /\ Len(last.f.fran) = Callbacks(last.f)
        /\ last.out = last.f.hraised
        /\ panicking = last.f.hraised
        /\ last.f.hraised # Block(last.f) => panicking # Block(last.f)

\* the handler raised a fault other than the one it handled; finally ran
C3_Witness ==
    /\ Finished /\ last.f.hraised # NoPanic /\ last.f.fraised = NoPanic
    /\ last.f.hraised # Block(last.f) /\ Callbacks(last.f) > 0
    /\ panicking = last.f.hraised

\* C4: a fault G raised by finally is the fault that leaves Done, whether the
\* block raised nothing, a handler consumed its fault, or nothing matched;
\* the block's fault is not the one propagated.
C4_FinallyFaultReplaces ==
    (Finished /\ last.f.fraised # NoPanic) =>
        /\ last.out = last.f.fraised
        /\ panicking = last.f.fraised
        /\ last.f.fraised.kind # "value" => panicking # Block(last.f)

\* finally raised while an unmatched fault of the block was pending
C4_Witness ==
    /\ Finished /\ last.f.fraised # NoPanic
    /\ Block(last.f) # NoPanic /\ ~last.f.consumed
    /\ panicking = last.f.fraised /\ panicking # Block(last.f)


\* C5: a fault of the block that an entry matched, with the handler call and
\* finally raising nothing, is absorbed: Done returns normally and no Plan
\* around it has called a handler.
C5_ConsumedFaultAbsorbed ==
    (Finished /\ Block(last.f) # NoPanic /\ last.f.hcalls # << >>
              /\ last.f.inflight = NoPanic /\ last.f.fraised = NoPanic) =>
        /\ last.out = NoPanic
        /\ panicking = NoPanic
        /\ \A i \in 1..Len(stack) : stack[i].pc = "main" /\ stack[i].hcalls = << >>

\* an inner Plan absorbed a fault under an outer Plan that has a CatchAll
C5_Witness ==
    /\ Finished /\ Block(last.f) # NoPanic /\ last.f.hcalls # << >>
    /\ last.f.inflight = NoPanic /\ last.f.fraised = NoPanic
    /\ Len(stack) = 1 /\ Len(stack[1].catch) = 1
    /\ stack[1].catch[1].anyhandler # NoFunc
    /\ panicking = NoPanic

\* C6 as stated: a fault v of the block that no entry matches is, after finally
\* has run, the fault that leaves Done: the same value v, not wrapped.
C6_UnmatchedAlwaysReraised ==
    (Finished /\ Block(last.f) # NoPanic /\ Matching(last.f) = {}) =>
        /\ last.f.hcalls = << >>
        /\ last.f.fcalls = 1
        /\ last.out = Block(last.f)
        /\ panicking = Block(last.f)

\* C6 (amended): a fault v of the block that no entry matches leaves Done,
\* provided no finally callback raises, after finally has run, as the same
\* value v: not wrapped, no Error made for it.
C6_UnmatchedFaultReraised ==
    (Finished /\ Block(last.f) # NoPanic /\ Matching(last.f) = {}
              /\ last.f.fraised = NoPanic) =>
        /\ last.f.hcalls = << >>
        /\ last.f.fcalls = 1
        /\ Len(last.f.fran) = Callbacks(last.f)
        /\ last.out = Block(last.f)
        /\ panicking = Block(last.f)
        /\ Len(heap) = last.f.hmark

\* a value that is no error passed a Plan that has a typed entry and a finally
C6_Witness ==
    /\ Finished /\ Block(last.f).kind = "value" /\ Matching(last.f) = {}
    /\ last.f.catch # << >> /\ Callbacks(last.f) > 0
    /\ panicking = Block(last.f)

\* C7 as stated: when the block returns without raising, no handler is called,
\* finally runs after the block, and Done returns normally.
C7_NormalFlowAlwaysReturns ==
    (Finished /\ Block(last.f) = NoPanic) =>
        /\ last.f.hcalls = << >>
        /\ last.f.steps = <<"main", "finally", "return">>
        /\ last.out = NoPanic

\* C7 (amended): when the block returns without raising, no handler is called
\* and finally runs after the block; Done returns normally unless a finally
\* callback raises, and then that callback's fault leaves Done.
C7_NormalFlow ==
    (Finished /\ Block(last.f) = NoPanic) =>
        /\ last.f.hcalls = << >>
        /\ last.f.consumed
        /\ last.f.fcalls = 1
        /\ SubSeq(last.f.steps, 1, 2) = <<"main", "finally">>
        /\ last.f.fraised = NoPanic =>
             /\ last.out = NoPanic /\ panicking = NoPanic
             /\ last.f.steps = <<"main", "finally", "return">>
             /\ Len(last.f.fran) = Callbacks(last.f)
        /\ last.f.fraised # NoPanic =>
             /\ last.out = last.f.fraised
             /\ last.f.steps = <<"main", "finally", "raise">>

\* the block returned, a CatchAll and a Finally were registered, Done returned
C7_Witness ==
    /\ Finished /\ Block(last.f) = NoPanic /\ last.out = NoPanic
    /\ Callbacks(last.f) > 0
    /\ \E i \in 1..Len(last.f.catch) : last.f.catch[i].anyhandler # NoFunc

\* the order of the steps of one Done, by where the call is
StepsInOrder(f) ==
    CASE f.pc = "main" -> f.steps = <<"main">>
      [] f.pc = "handler" -> f.steps = <<"main", "handler">>
      [] f.pc = "finally" ->
           f.steps \in {<<"main", "finally">>, <<"main", "handler", "finally">>}
      [] f.pc = "done" ->
           /\ f.steps \in {<<"main", "finally", x>> : x \in {"return", "raise"}}
                   \cup {<<"main", "handler", "finally", x>> : x \in {"return", "raise"}}
           /\ f.steps[Len(f.steps)] = "raise" <=>
                (~f.consumed \/ f.inflight # NoPanic \/ f.fraised # NoPanic)
      [] OTHER -> f.steps = << >>

\* C8: one Done runs the block, then at most one handler, then finally, then
\* re-raises if the fault is unconsumed or new; and when a fault has just left
\* an inner Plan, that Plan's finally is over and no Plan around it has called
\* a handler yet.
C8_StepOrder ==
    /\ \A f \in Frames :
         /\ StepsInOrder(f)
         /\ Len(f.hcalls) <= 1
         /\ f.pc \in {"config", "main"} => f.hcalls = << >> /\ f.fcalls = 0
         /\ f.pc = "handler" => f.fcalls = 0
    /\ (Finished /\ panicking # NoPanic) =>
         /\ last.f.fcalls = 1
         /\ last.f.fq = << >> \/ last.f.fraised # NoPanic
         /\ \A i \in 1..Len(stack) :
              stack[i].pc = "main" /\ stack[i].hcalls = << >> /\ stack[i].fcalls = 0

\* a fault left an inner Plan whose handler and finally ran, under an outer Plan
C8_Witness ==
    /\ Finished /\ panicking # NoPanic /\ Len(stack) = 1
    /\ last.f.steps = <<"main", "handler", "finally", "raise">>
    /\ Callbacks(last.f) > 0 /\ stack[1].catch # << >>

\* C9 as stated: a plain error never reaches a typed handler, whatever the
\* class of the entry; the first wildcard entry is called with the raw value;
\* without a wildcard entry the fault stays unconsumed and is re-raised, and
\* no Error is made for it.
C9_PlainErrorAlwaysReraised ==
    \A f \in Frames :
        (Dispatched(f) /\ f.rec.kind = "error") =>
            LET W == {i \in 1..Len(f.catch) : Wildcard(f.catch[i])}
            IN  /\ \A k \in 1..Len(f.hcalls) : f.hcalls[k].slot = "anyhandler"
                /\ W # {} =>
                     /\ Len(f.hcalls) = 1
                     /\ f.hcalls[1].idx = Least(W)
                     /\ f.hcalls[1].arg = f.rec
                /\ W = {} =>
                     /\ f.hcalls = << >>
                     /\ ~f.consumed
                     /\ f.pc = "done" => last.out = f.rec

\* C9 (amended): a plain error never reaches a typed handler, whatever the
\* class of the entry; the first wildcard entry is called with the raw value;
\* without a wildcard entry the fault stays unconsumed and, provided no finally
\* callback raises, is re-raised; no Error is made for it.
C9_PlainErrorOnlyWildcard ==
    \A f \in Frames :
        (Dispatched(f) /\ f.rec.kind = "error") =>
            LET W == {i \in 1..Len(f.catch) : Wildcard(f.catch[i])}
            IN  /\ \A k \in 1..Len(f.hcalls) : f.hcalls[k].slot = "anyhandler"
                /\ W # {} =>
                     /\ Len(f.hcalls) = 1
                     /\ f.hcalls[1].idx = Least(W)
                     /\ f.hcalls[1].arg = f.rec
                /\ W = {} =>
                     /\ f.hcalls = << >>
                     /\ ~f.consumed
                     /\ (f.pc = "done" /\ f.fraised = NoPanic) => last.out = f.rec
                /\ (f.pc = "handler" \/ (f.pc = "finally" /\ f.fq = f.finally
                                           /\ f.hraised = NoPanic)) =>
                     Len(heap) = f.hmark

\* a plain error skipped Catch(SystemError) and reached the CatchAll after it
C9_Witness ==
    \E f \in Frames :
        /\ f.pc = "handler" /\ f.rec.kind = "error"
        /\ Len(f.catch) = 2 /\ f.catch[1].match = SystemError
        /\ f.hcalls[1].idx = 2 /\ f.hcalls[1].arg = f.rec

\* C10: when the block raises a value v that is no error and the first
\* matching entry is a wildcard, the wildcard handler is called with a newly
\* made Error of class UnknownPanicError whose data holds v under
\* OriginalErrorKey: GetData(received, OriginalErrorKey) = v.
C10_WildcardReceivesWrapper ==
    \A f \in Frames :
        (Dispatched(f) /\ f.rec.kind = "value" /\ Least(Matching(f)) # 0
                       /\ Wildcard(f.catch[Least(Matching(f))])) =>
            /\ Len(f.hcalls) = 1
            /\ f.hcalls[1].slot = "anyhandler"
            /\ LET a == f.hcalls[1].arg
               IN  /\ a.kind = "Error"
                   /\ a.id > f.hmark /\ a.id \in DOMAIN heap
                   /\ heap[a.id].class = UnknownPanicError
                   /\ GetData(heap, a, OriginalErrorKey) = f.rec

\* panic(3) reached a CatchAll handler, which holds the wrapper of 3
C10_Witness ==
    \E f \in Frames :
        /\ f.pc = "handler" /\ f.rec = RawValue(3)
        /\ f.hcalls[1].slot = "anyhandler" /\ f.hcalls[1].fn # NoFunc
        /\ GetData(heap, f.harg, OriginalErrorKey) = RawValue(3)

----------------------------------------------------------------------------
\* C11: when the block raised a value that is no error, the entries are tried
\* in registration order; a typed entry matches exactly when its class is
\* UnknownPanicError or an ancestor of it (here HierarchicalError), never an
\* unrelated or sibling class; the first matching typed or wildcard entry is
\* the only one called; a typed handler receives a new Error of class
\* UnknownPanicError that carries the raised value under OriginalErrorKey.
C11_UnknownPayloadDispatch ==
    \A f \in Frames :
        Dispatched(f) /\ Block(f).kind = "value" =>
            LET hit == {i \in 1..Len(f.catch) :
                          f.catch[i].match \in {NoClass, UnknownPanicError,
                                                HierarchicalError}}
            IN  /\ Len(f.hcalls) = (IF hit = {} THEN 0 ELSE 1)
                /\ \A k \in 1..Len(f.hcalls) :
                      LET c == f.hcalls[k] IN
                      /\ c.idx = Least(hit)
                      /\ ~Wildcard(f.catch[c.idx]) =>
                            /\ c.slot = "handler"
                            /\ c.fn = f.catch[c.idx].handler
                            /\ c.arg.kind = "Error"
                            /\ c.arg.id > f.hmark
                            /\ heap[c.arg.id].class = UnknownPanicError
                            /\ GetData(heap, c.arg, OriginalErrorKey) = Block(f)

\* a sibling class is passed over, the ancestor registered after it is called
\* although UnknownPanicError itself is registered later still
C11_Witness ==
    \E f \in Frames :
        /\ Dispatched(f) /\ Block(f).kind = "value"
        /\ Len(f.catch) = 3
        /\ f.catch[1].match = FruitError
        /\ f.catch[2].match = HierarchicalError
        /\ f.catch[3].match = UnknownPanicError
        /\ Len(f.hcalls) = 1 /\ f.hcalls[1].idx = 2

----------------------------------------------------------------------------
\* an Error of class UnknownPanicError that carries an original payload
IsWrapper(h, e) ==
    /\ e.kind = "Error"
    /\ h[e.id].class = UnknownPanicError
    /\ GetData(h, e, OriginalErrorKey) # Nil

\* the Done call that finished in the last step called a handler with a
\* wrapper and that handler called Repanic on it
RepanickedWrapper ==
    Finished /\ last.f.hvia = "Repanic" /\ IsWrapper(heap, last.f.harg)

\* C12 as stated: whenever a handler calls Repanic on the wrapper made for v,
\* the fault that leaves the Plan carries v.
C12_RepanicAlwaysLeavesWithPayload ==
    RepanickedWrapper =>
        last.out = GetData(heap, last.f.harg, OriginalErrorKey)

\* C12, amended: when a handler calls Repanic on the wrapper made for v and no
\* finally callback of that Plan raises, the fault that leaves the Plan is v
\* itself and not the wrapper; an enclosing Plan that recovers it and calls a
\* wildcard handler hands that handler a new wrapper, different from the first,
\* whose data under OriginalErrorKey is again v.
C12_RepanicRoundTrip ==
    /\ RepanickedWrapper /\ last.f.fraised = NoPanic =>
          /\ last.out = GetData(heap, last.f.harg, OriginalErrorKey)
          /\ last.out # last.f.harg
          /\ panicking = last.out
    /\ \A f \in Frames :
          Dispatched(f) /\ f.from # NoPanic /\ IsWrapper(heap, f.from) =>
              LET v == GetData(heap, f.from, OriginalErrorKey) IN
              /\ Block(f) = v
              /\ \A k \in 1..Len(f.hcalls) :
                    LET w == f.hcalls[k].arg IN
                    Wildcard(f.catch[f.hcalls[k].idx]) /\ v.kind = "value" =>
                        /\ IsWrapper(heap, w)
                        /\ w # f.from /\ w.id > f.hmark
                        /\ GetData(heap, w, OriginalErrorKey) = v

\* an enclosing Plan's wildcard handler has received the second wrapper
C12_Witness ==
    \E f \in Frames :
        /\ Dispatched(f) /\ f.from # NoPanic /\ IsWrapper(heap, f.from)
        /\ Len(f.hcalls) = 1 /\ Wildcard(f.catch[f.hcalls[1].idx])
        /\ f.hcalls[1].fn # NoFunc
        /\ IsWrapper(heap, f.hcalls[1].arg)
        /\ f.hcalls[1].arg # f.from

----------------------------------------------------------------------------
\* C13: Repanic(err) panics with err itself when err is a plain error or an
\* Error whose class is neither UnknownPanicError nor derived from it; when err
\* is an Error of such a class with nothing stored under OriginalErrorKey it
\* panics with a new Error of class ProgrammerError; it never returns.
C13_RepanicCases ==
    libcall.fn = "Repanic" =>
        LET err == libcall.arg
            unknown == err.kind = "Error" /\
                       heap[err.id].class \in {UnknownPanicError, ChildPanicError}
        IN  /\ libcall.raised /\ libcall.out # Nil
            /\ ~unknown => libcall.out = err
            /\ unknown /\ OriginalErrorKey \notin DOMAIN heap[err.id].data =>
                  /\ libcall.out.kind = "Error"
                  /\ libcall.out # err
                  /\ libcall.out.id = Len(heap)
                  /\ heap[libcall.out.id].class = ProgrammerError

\* Repanic has been called on an Error of a class derived from
\* UnknownPanicError that carries no payload, and has raised a ProgrammerError
C13_Witness ==
    /\ libcall.fn = "Repanic"
    /\ libcall.arg.kind = "Error"
    /\ heap[libcall.arg.id].class = ChildPanicError
    /\ heap[libcall.arg.id].data = NoData
    /\ libcall.out.kind = "Error"
    /\ heap[libcall.out.id].class = ProgrammerError

\* C14: for every error value err, Repanic(err) panics with the value
\* panic(OriginalError(err)) would panic with.
C14_RepanicIsPanicOriginalError ==
    libcall.fn = "Repanic" =>
        libcall.out = OriginalError(heap, libcall.arg)

----------------------------------------------------------------------------
\* C15 as stated: every fault a handler or a finally callback raised during a
\* Done call is the payload that leaves that Done call, also when the handler
\* raised F and a finally callback then raised G.
C15_EveryRaisedFaultSurfaces ==
    Finished =>
        /\ last.f.hraised # NoPanic => last.out = last.f.hraised
        /\ last.f.fraised # NoPanic => last.out = last.f.fraised

\* C15, amended: a Done call in which a handler or a finally callback raised
\* never returns normally; the fault G a finally callback raised always leaves
\* Done; the fault F a handler raised leaves Done when no finally callback
\* raises after it, and is replaced by G when one does.
C15_RaisedFaultSurfaces ==
    Finished =>
        LET F == last.f.hraised
            G == last.f.fraised
        IN  /\ F # NoPanic \/ G # NoPanic =>
                  last.out # NoPanic /\ panicking = last.out
            /\ G # NoPanic => last.out = G
            /\ F # NoPanic /\ G = NoPanic => last.out = F

\* a handler raised F, a finally callback then raised another fault G, and G
\* is what left Done
C15_Witness ==
    /\ Finished
    /\ last.f.hraised # NoPanic
    /\ last.f.fraised # NoPanic
    /\ last.f.fraised # last.f.hraised
    /\ last.out = last.f.fraised

----------------------------------------------------------------------------
\* the registered finally callbacks a Done call has run (entered)
Ran(f) == {f.fran[k] : k \in 1..Len(f.fran)}

\* C16: when a Done call is over, every callback registered with Finally on
\* its Plan has been run, whatever the order of the Catch, CatchAll and Finally
\* calls was and whatever the other finally callbacks did.
C16_EveryFinallyCallbackRuns ==
    Finished => \A k \in 1..Callbacks(last.f) : k \in Ran(last.f)

----------------------------------------------------------------------------
\* C17: with callbacks f1, ..., fn registered by Finally in that order, the
\* callbacks a Done call has run so far are fn, fn-1, ... in that order, each
\* once; when none of them raised and Done is over all n have run, f1 last.
C17_FinallyReverseOrder ==
    /\ \A f \in Frames \ {NoFrame} :
          /\ Len(f.fran) <= Callbacks(f)
          /\ \A k \in 1..Len(f.fran) : f.fran[k] = Callbacks(f) - k + 1
    /\ Finished /\ last.f.fraised = NoPanic =>
          Len(last.f.fran) = Callbacks(last.f)

\* three callbacks have run, the last registered first, and none raised
C17_Witness ==
    /\ Finished
    /\ last.f.fraised = NoPanic
    /\ Callbacks(last.f) = 3
    /\ last.f.fran = <<3, 2, 1>>

----------------------------------------------------------------------------
\* how often step s stands in the step list q
RECURSIVE Count(_, _)
Count(q, s) ==
    IF q = << >> THEN 0
    ELSE (IF Head(q) = s THEN 1 ELSE 0) + Count(Tail(q), s)

\* a Plan on which Done has not been called has run nothing: not the block,
\* no handler, no finally callback; once Done is called the block has been
\* entered exactly once, first of all
C18_NothingRunsBeforeDone ==
    \A f \in Frames \ {NoFrame} :
        /\ f.pc = "config" =>
              /\ f.steps = << >> /\ f.hcalls = << >>
              /\ f.fcalls = 0 /\ f.fran = << >>
              /\ f.rec = NoPanic /\ ~f.consumed
        /\ f.pc # "config" =>
              Count(f.steps, "main") = 1 /\ Head(f.steps) = "main"

\* a step that leaves the running Plan in configuration is a Catch, CatchAll or
\* Finally call: the Plan it returns is the one it was called on, with one more
\* catch entry or one more finally callback and nothing else changed, and no
\* panic has started; the step that starts the block is the Done call
C18_ConfigureOnly ==
    stack # << >> /\ Top.pc = "config" /\ stack' # stack =>
        LET f == Top
            g == stack'[Len(stack)]
        IN  /\ Len(stack') = Len(stack)
            /\ SubSeq(stack', 1, Len(stack) - 1) = Pop
            /\ g.id = f.id
            /\ panicking' = NoPanic /\ heap' = heap
            /\ \/ /\ g = [f EXCEPT !.catch = g.catch]
                  /\ Len(g.catch) = Len(f.catch) + 1
                  /\ SubSeq(g.catch, 1, Len(f.catch)) = f.catch
               \/ /\ g = [f EXCEPT !.finally = g.finally]
                  /\ Len(g.finally) = Len(f.finally) + 1
                  /\ Tail(g.finally) = f.finally
               \/ g = [f EXCEPT !.pc = "main", !.steps = <<"main">>]

\* C18: Do, Catch, CatchAll and Finally only configure the Plan and return that
\* same Plan; none of them runs the block, a handler or a finally callback;
\* the block is run exactly once, by Done, and not at all while Done has not
\* been called.
C18_ConfigurationRunsNothing ==
    []C18_NothingRunsBeforeDone /\ [][C18_ConfigureOnly]_vars

\* a Plan with two catch entries and a finally callback on which Done has not
\* been called: nothing has run
C18_Witness ==
    /\ Running("config")
    /\ Len(Top.catch) = 2 /\ Callbacks(Top) = 1
    /\ Top.steps = << >>

----------------------------------------------------------------------------
\* the Done call on top of the stack recovers the panic in this step
Recovers == Running("main") /\ panicking # NoPanic /\ panicking' = NoPanic

\* a Done call that has recovered a classified Error has put its own record at
\* the end of the Error's exit path, whether or not an entry matched; the
\* records of an exit path name each boundary once, the inner ones first
C19_RecordAtBoundary ==
    /\ \A f \in Frames :
          Dispatched(f) /\ Block(f).kind = "Error" =>
              LET exits == heap[Block(f).id].exits
              IN  exits # << >> /\ exits[Len(exits)] = f.id
    /\ \A r \in DOMAIN heap :
          \A i, j \in 1..Len(heap[r].exits) :
              i < j => heap[r].exits[i] > heap[r].exits[j]

\* a step changes an Error only by appending one record to its exit path, and
\* only when a Done call recovers that Error; recovering a classified Error
\* always appends; an Error made in the step starts with an empty exit path
C19_AppendOnly ==
    /\ Len(heap') >= Len(heap)
    /\ \A r \in DOMAIN heap :
          \/ heap'[r] = heap[r]
          \/ /\ Recovers /\ panicking = ErrorRef(r)
             /\ heap'[r] = [heap[r] EXCEPT !.exits = Append(@, Top.id)]
    /\ Recovers /\ panicking.kind = "Error" =>
          heap'[panicking.id].exits = Append(heap[panicking.id].exits, Top.id)
    /\ \A r \in DOMAIN heap' \ DOMAIN heap : heap'[r].exits = << >>

\* C19: each time a Done call recovers a classified Error it appends one record
\* to the Error's exit path, matched or not; nothing else of the Error changes
\* and the earlier records stay, so an Error that crossed n nested boundaries
\* carries their n records in crossing order; plain errors and values that are
\* no errors (and the wrappers made for them) get no record.
C19_ExitPathAdditive ==
    []C19_RecordAtBoundary /\ [][C19_AppendOnly]_vars

\* an Error the inner Plan re-raised has been recovered by the outer Plan: it
\* carries the record of the inner boundary followed by that of the outer one
C19_Witness ==
    \E f \in Frames :
        /\ Dispatched(f) /\ Block(f).kind = "Error"
        /\ f.id = 1
        /\ heap[Block(f).id].exits = <<2, 1>>

----------------------------------------------------------------------------
\* the class reached from c by following n parent links, NoClass past a root
RECURSIVE ParentN(_, _)
ParentN(c, n) ==
    IF n = 0 \/ c = NoClass THEN c ELSE ParentN(classes[c].parent, n - 1)

\* a is c or is reached from c by parent links
OnPath(c, a) ==
    a # NoClass /\ \E n \in 0..Len(classes) : ParentN(c, n) = a

\* C20: c.Is(a) is true exactly when a is the node c or is reached from c by
\* parent links; Is is reflexive and transitive; it goes by the node and not
\* by the name, so of two classes with one name only the one on the path is
\* accepted; for a chain A -> B -> C, C.Is(A), C.Is(B) and C.Is(C) hold and
\* A.Is(C) does not.
C20_IsWalksParents ==
    /\ libcall.fn = "Is" =>
          libcall.out = OnPath(libcall.arg[1], libcall.arg[2])
    /\ \A c \in DOMAIN classes :
          /\ Is(c, c)
          /\ \A a \in ClassValues : Is(c, a) <=> OnPath(c, a)
          /\ \A a, b \in DOMAIN classes :
                /\ Is(c, b) /\ Is(b, a) => Is(c, a)
                /\ Is(c, a) /\ a # b /\ classes[a].name = classes[b].name
                     /\ ~OnPath(c, b) => ~Is(c, b)
                /\ classes[c].parent = b /\ classes[b].parent = a =>
                      Is(c, a) /\ Is(c, b) /\ Is(c, c) /\ ~Is(a, c)

\* a class made by user code stands at the end of a chain of three, Is has
\* been asked from it up to the head of the chain and has said yes, and there
\* is another class with the head's name that it is not a descendant of
C20_Witness ==
    /\ libcall.fn = "Is" /\ libcall.out = TRUE
    /\ LET c == libcall.arg[1]
           a == libcall.arg[2]
       IN  /\ c > Len(InitClasses) /\ a # NoClass
           /\ classes[c].parent # a
           /\ classes[c].parent # NoClass
           /\ classes[classes[c].parent].parent = a
           /\ \E b \in DOMAIN classes :
                 b # a /\ classes[b].name = classes[a].name /\ ~Is(c, b)

----------------------------------------------------------------------------
\* the last step was a Wrap call
Wrapped == libcall.fn = "Wrap"

\* err is a classified Error whose class Is e or Is one of the exemptions
Exempt(e, err, exempt) ==
    /\ err.kind = "Error"
    /\ \/ Is(heap[err.id].class, e)
       \/ \E i \in 1..Len(exempt) : Is(heap[err.id].class, exempt[i])

\* C21: when err is already a classified Error whose class Is X or Is one of
\* the exemption classes, X.Wrap(err, exemptions...) returns err itself: no
\* Error is built and nothing is logged, so passing the result of an X.Wrap
\* call to the same call again returns that same result.
C21_WrapIdempotent ==
    Wrapped =>
        LET a == libcall.arg
            o == libcall.out
        IN  /\ Exempt(a.e, a.err, a.classes) =>
                  o.rv = a.err /\ Len(heap) = o.mark /\ ~o.logged
            /\ o.rv # Nil =>
                  LET again == Wrap(heap, a.e, o.rv, a.classes)
                  IN  again.rv = o.rv /\ again.h = heap /\ ~again.logged

\* an Error of class FruitError has been passed to AppleError.Wrap with
\* FruitError among the exemptions and has come back as it is
C21_Witness ==
    /\ Wrapped
    /\ libcall.arg.e = AppleError
    /\ libcall.arg.classes = <<FruitError>>
    /\ libcall.arg.err.kind = "Error"
    /\ heap[libcall.arg.err.id].class = FruitError
    /\ libcall.out.rv = libcall.arg.err

----------------------------------------------------------------------------
\* C22: X.Wrap(nil, exemptions...) returns nil for every class X and every
\* exemption list: no Error is built (so no stack is captured) and nothing is
\* logged.
C22_WrapNil ==
    Wrapped /\ libcall.arg.err = Nil =>
        /\ libcall.out.rv = Nil
        /\ Len(heap) = libcall.out.mark
        /\ ~libcall.out.logged

\* nil has been passed to Wrap of a class that captures the stack and logs on
\* creation, with exemptions, and nil has come back
C22_Witness ==
    /\ Wrapped /\ libcall.arg.err = Nil
    /\ libcall.arg.e = ProgrammerError
    /\ {LogOnCreation, CaptureStack} \subseteq classes[ProgrammerError].flags
    /\ libcall.arg.classes # << >>
    /\ libcall.out.rv = Nil

----------------------------------------------------------------------------
\* C23: an Error X.Wrap builds has class X, the given cause, and a stack
\* exactly when X's flags include CaptureStack; every Error there is, also one
\* a later Wrap call hands back unchanged, has a stack exactly when its own
\* class captures, whatever the class of that later call.
C23_StackIffCaptureStack ==
    /\ \A r \in DOMAIN heap :
          heap[r].stack <=> CaptureStack \in classes[heap[r].class].flags
    /\ Wrapped /\ Len(heap) > libcall.out.mark =>
          LET a == libcall.arg
              rv == libcall.out.rv
          IN  /\ rv = ErrorRef(Len(heap)) /\ Len(heap) = libcall.out.mark + 1
              /\ heap[rv.id].class = a.e
              /\ heap[rv.id].err = a.err
              /\ heap[rv.id].stack <=> CaptureStack \in classes[a.e].flags
    /\ Wrapped /\ Len(heap) = libcall.out.mark /\ libcall.out.rv # Nil =>
          libcall.out.rv = libcall.arg.err

\* an Error built without a stack by QuietError has come back unchanged, still
\* without one, from Wrap of FruitError, which captures
C23_Witness ==
    /\ Wrapped /\ libcall.arg.e = FruitError
    /\ CaptureStack \in classes[FruitError].flags
    /\ libcall.out.rv = libcall.arg.err
    /\ libcall.out.rv.kind = "Error"
    /\ heap[libcall.out.rv.id].class = QuietError
    /\ ~heap[libcall.out.rv.id].stack
    /\ \E r \in DOMAIN heap : heap[r].stack

----------------------------------------------------------------------------
\* the last step was a call of one of the four constructors
Constructed == libcall.fn \in {"NewSpecified", "NewWith", "NewWithout", "New"}

\* the parent a constructor uses for the argument ec
ParentUsed(ec) == IF ec = NoClass THEN HierarchicalError ELSE ec

\* the class a constructor returns has the flags its rule gives: the supplied
\* ones for NewSpecified, the parent's with the additions for NewWith, the
\* parent's without the removals for NewWithout, the parent's for New
C24_FlagsAtConstruction ==
    Constructed =>
        LET a == libcall.arg
            c == classes[libcall.out]
            inherited == classes[ParentUsed(a.ec)].flags
        IN  /\ libcall.out = Len(classes)
            /\ c.parent = ParentUsed(a.ec) /\ c.name = a.name
            /\ libcall.fn = "NewSpecified" => c.flags = a.flags
            /\ libcall.fn = "NewWith" => c.flags = inherited \cup a.flags
            /\ libcall.fn = "NewWithout" => c.flags = inherited \ a.flags
            /\ libcall.fn = "New" => c.flags = inherited

\* no step changes the flags, the parent or the name of a class there is
C24_ClassesFrozen ==
    /\ Len(classes') >= Len(classes)
    /\ \A c \in DOMAIN classes : classes'[c] = classes[c]

\* C24: the flags of a new class are fixed at construction from the parent's
\* flags at that moment by the rule of the constructor used, and no later
\* operation changes a class's flags or parent.
C24_FlagsFixedAtConstruction ==
    []C24_FlagsAtConstruction /\ [][C24_ClassesFrozen]_vars

\* NewWithout has stripped CaptureStack off a parent that has it, and that
\* parent was itself made by NewWith out of a class without LogOnCreation
C24_Witness ==
    /\ libcall.fn = "NewWithout"
    /\ libcall.arg.flags = {CaptureStack}
    /\ libcall.arg.ec > Len(InitClasses)
    /\ classes[libcall.arg.ec].flags = {LogOnCreation, CaptureStack}
    /\ classes[classes[libcall.arg.ec].parent].flags = {CaptureStack}
    /\ classes[libcall.out].flags = {LogOnCreation}

----------------------------------------------------------------------------
\* C25: the constructors always return a class; a nil parent is replaced by
\* HierarchicalError in all four; so every class but the two roots has a
\* parent and Is exactly one of the roots, which are SystemError without flags
\* and HierarchicalError with CaptureStack; a class made by New or NewWith
\* from a nil parent has CaptureStack.
C25_TwoRoots ==
    /\ classes[SystemError].parent = NoClass
    /\ classes[SystemError].flags = {}
    /\ classes[HierarchicalError].parent = NoClass
    /\ classes[HierarchicalError].flags = {CaptureStack}
    /\ \A c \in DOMAIN classes \ {SystemError, HierarchicalError} :
          /\ classes[c].parent \in DOMAIN classes
          /\ Is(c, SystemError) # Is(c, HierarchicalError)
    /\ Constructed =>
          /\ ~libcall.raised /\ libcall.out \in DOMAIN classes
          /\ libcall.arg.ec = NoClass =>
                /\ classes[libcall.out].parent = HierarchicalError
                /\ Is(libcall.out, HierarchicalError)
                /\ libcall.fn \in {"New", "NewWith"} =>
                      CaptureStack \in classes[libcall.out].flags

\* NewSpecified has been given a nil parent and no flags: the class made has
\* HierarchicalError for parent and, its flags being the given ones, no stack
C25_Witness ==
    /\ libcall.fn = "NewSpecified"
    /\ libcall.arg.ec = NoClass /\ libcall.arg.flags = {}
    /\ classes[libcall.out].parent = HierarchicalError
    /\ classes[libcall.out].flags = {}
    /\ \E c \in DOMAIN classes : c > Len(InitClasses) /\ Is(c, SystemError)

----------------------------------------------------------------------------
\* the value passed is no classified Error
Unclassified(v) == v.kind # "Error"

\* C26: GetClass(v) is the class v was wrapped with when v is a classified
\* Error, and otherwise the class of the first case of the platform table that
\* accepts v's type, SystemError when none does, always a class under the
\* SystemError root; K.Contains(v) is true exactly when K is on the parent
\* path of GetClass(v), so SystemError.Contains(v) is true and
\* HierarchicalError.Contains(v) false for every v that is no Error.
C26_Classify ==
    LET v == libcall.arg.err
    IN  /\ libcall.fn = "GetClass" =>
             /\ ~Unclassified(v) => libcall.out = heap[v.id].class
             /\ Unclassified(v) =>
                  /\ libcall.out \in
                       {SystemError} \cup
                         {TypeSwitch[i].class : i \in DOMAIN TypeSwitch}
                  /\ OnPath(libcall.out, SystemError)
                  /\ \A i \in DOMAIN TypeSwitch :
                       TypeOf(v) = TypeSwitch[i].type =>
                           libcall.out = TypeSwitch[i].class
                  /\ TypeOf(v) \in {"nil", "runtime.Error", "*fmt.wrapError"}
                       => libcall.out = SystemError
                  /\ TypeOf(v) = "timeoutError" => libcall.out = NetworkError
        /\ libcall.fn = "Contains" =>
             /\ libcall.out = OnPath(GetClass(heap, v), libcall.arg.e)
             /\ Unclassified(v) /\ libcall.arg.e = SystemError => libcall.out
             /\ Unclassified(v) /\ libcall.arg.e = HierarchicalError
                  => ~libcall.out

\* NetworkError.Contains(v) has been asked of a *net.DNSConfigError, two
\* levels below NetworkError, with a FruitError wrapping a plain error and a
\* DNSError wrapping that on the heap
C26_Witness ==
    /\ libcall.fn = "Contains" /\ libcall.arg.e = NetworkError
    /\ TypeOf(libcall.arg.err) = "*net.DNSConfigError"
    /\ libcall.out
    /\ Len(heap) = 2
    /\ heap[1].class = FruitError /\ heap[2].class = DNSError
    /\ heap[2].err = ErrorRef(1)

----------------------------------------------------------------------------
\* C27: one Done call calls at most one catch entry, whatever the catch list
\* holds, and calls one only when its protected block raised; the entry
\* called is one that matches what the block raised.
C27_AtMostOneHandler ==
    \A f \in Frames :
        /\ Len(f.hcalls) <= 1
        /\ f.hcalls # << >> =>
              /\ Block(f) # NoPanic
              /\ f.hcalls[1].idx \in Matching(f)
        /\ f.pc = "handler" => Len(f.hcalls) = 1

\* a Done whose two entries both match (a typed one and a wildcard behind it)
\* has called the first, the handler has returned, and no second call was made
C27_Witness ==
    \E f \in Frames :
        /\ Len(f.catch) = 2 /\ Matching(f) = {1, 2}
        /\ ~Wildcard(f.catch[1]) /\ Wildcard(f.catch[2])
        /\ f.catch[2].anyhandler # NoFunc
        /\ f.pc \in {"finally", "done"}
        /\ f.inflight = NoPanic
        /\ Len(f.hcalls) = 1 /\ f.hcalls[1].idx = 1

----------------------------------------------------------------------------
\* C28: the handler of an entry registered as Catch(K, h) is called only
\* with a classified Error that Is K: the very Error the block raised, or,
\* when the block raised a value that is no error, a new UnknownPanicError
\* that holds the value; never for a block that raised a plain error.
C28_TypedHandlerGetsError ==
    \A f \in Frames : \A k \in 1..Len(f.hcalls) :
        LET c == f.hcalls[k]
            K == f.catch[c.idx].match
        IN  (c.slot = "handler" /\ c.fn # NoFunc) =>
              /\ K # NoClass
              /\ c.arg.kind = "Error"
              /\ c.arg.id \in DOMAIN heap
              /\ Is(heap[c.arg.id].class, K)
              /\ Block(f).kind \in {"Error", "value"}
              /\ Block(f).kind = "Error" => c.arg = Block(f)
              /\ Block(f).kind = "value" =>
                    /\ heap[c.arg.id].class = UnknownPanicError
                    /\ c.arg.id = f.hmark + 1
                    /\ GetData(heap, c.arg, OriginalErrorKey) = Block(f)

\* the block raised a value that is no error and the handler registered for
\* HierarchicalError, an ancestor of UnknownPanicError, has been called
C28_Witness ==
    \E f \in Frames :
        /\ Block(f).kind = "value"
        /\ Len(f.hcalls) = 1 /\ f.hcalls[1].slot = "handler"
        /\ f.catch[f.hcalls[1].idx].match = HierarchicalError
        /\ heap[f.hcalls[1].arg.id].class = UnknownPanicError

----------------------------------------------------------------------------
\* C29: every entry that dispatch treats as the wildcard (it calls the
\* entry's anyhandler) was registered with CatchAll and has a wildcard handler
\* to call; an entry registered with Catch(class, handler), which stores a
\* typed handler, is never treated so, a nil class included.
C29_WildcardsComeFromCatchAll ==
    \A f \in Frames : \A k \in 1..Len(f.hcalls) :
        f.hcalls[k].slot = "anyhandler" =>
            /\ f.hcalls[k].fn # NoFunc
            /\ f.catch[f.hcalls[k].idx].handler = NoFunc

----------------------------------------------------------------------------
\* the class of the classified Error v
ClassOf(v) == heap[v.id].class

\* C30: X.Wrap(c, E...) of a non-nil cause c returns a classified Error whose
\* class has X or a member of E on its parent path.  When c is an Error of a
\* class strictly above X that Is no member of E, the result is a new Error
\* of class X with cause c; when c's class is X or below X, the result is c.
C30_WrapResultIsOfClass ==
    (Wrapped /\ libcall.arg.err # Nil) =>
        LET X == libcall.arg.e
            E == libcall.arg.classes
            c == libcall.arg.err
            r == libcall.out.rv
            mark == libcall.out.mark
        IN  /\ r.kind = "Error" /\ r.id \in DOMAIN heap
            /\ \/ OnPath(ClassOf(r), X)
               \/ \E i \in DOMAIN E : OnPath(ClassOf(r), E[i])
            /\ ( /\ c.kind = "Error"
                 /\ ClassOf(c) # X /\ OnPath(X, ClassOf(c))
                 /\ \A i \in DOMAIN E : ~OnPath(ClassOf(c), E[i]) ) =>
                   /\ r # c
                   /\ Len(heap) = mark + 1 /\ r.id = mark + 1
                   /\ ClassOf(r) = X
                   /\ heap[r.id].err = c
            /\ (c.kind = "Error" /\ OnPath(ClassOf(c), X)) =>
                   r = c /\ Len(heap) = mark

\* AppleError.Wrap has been given a FruitError Error, its parent class, and
\* no exemption: a second Error, of class AppleError, holds the first
C30_Witness ==
    /\ Wrapped
    /\ libcall.arg.e = AppleError /\ libcall.arg.classes = << >>
    /\ libcall.arg.err = ErrorRef(1)
    /\ heap[1].class = FruitError
    /\ libcall.out.rv = ErrorRef(2)
    /\ heap[2].class = AppleError /\ heap[2].err = ErrorRef(1)

====
